---- MODULE Spec2Model ----
(***************************************************************************)
(* Study-plan engine of brain-bridge-backend (service/study_plans.py):     *)
(* the day allocator, the topic selector and the task generator, each a    *)
(* call-and-return computation over inputs drawn from bounded sets.        *)
(***************************************************************************)
EXTENDS Integers, Sequences, FiniteSets, TLC

VARIABLES
    pc,                 \* "call" before the operation ran, "return" after it
    core_courses,       \* allocate_subjects_to_days: list of core course ids
    elective_courses,   \* allocate_subjects_to_days: list of elective course ids
    strength_ratings,   \* allocate_subjects_to_days: dict course id -> strength
    allocation,         \* allocate_subjects_to_days: returned dict day -> course id
    daily_study_time,   \* generate_tasks: minutes
    tasks,              \* generate_tasks: returned list of {type, duration}
    course_topics,      \* select_topic_for_course: course.topics
    completed_topic_ids,\* select_topic_for_course: completed ids
    selected_topic,     \* select_topic_for_course: returned Optional[Topic]
    course_type,        \* courses table: course -> "core" | "elective"
    cache,              \* Redis: key -> stored JSON value (absent keys are not in DOMAIN)
    cat_courses,        \* categorize_subjects: the courses list
    categorized,        \* categorize_subjects: returned {"core": ..., "electives": ...}
    week,               \* the Monday of date.today(), as a week number
    plans,              \* study_plans table: rows {id, user_id, week_start_date}
    sessions,           \* daily_study_sessions table: rows {id, study_plan_id, ...}
    seq,                \* primary-key sequences: last id given to a plan / a session
    n_requests,         \* number of plan requests served
    strengths,          \* subject_strengths table: rows {id, user_id, course_id, strength}
    inflight,           \* two overlapping plan requests: each one's position and locals
    active_connections, \* ConnectionManager: room_id -> set of (websocket, user_id)
    handlers,           \* chat_websocket calls: websocket -> position, room, user
    accept_order,       \* the websockets in the order connect accepted them
    last                \* the last request served and its response

vars == <<pc, core_courses, elective_courses, strength_ratings, allocation,
          daily_study_time, tasks, course_topics, completed_topic_ids,
          selected_topic, course_type, cache, cat_courses, categorized,
          week, plans, sessions, seq, n_requests, strengths, inflight,
          active_connections, handlers, accept_order, last>>

allocVars == <<core_courses, elective_courses, strength_ratings, allocation>>
taskVars == <<daily_study_time, tasks>>
topicVars == <<course_topics, completed_topic_ids, selected_topic>>
catVars == <<course_type, cache, cat_courses, categorized>>
chatVars == <<active_connections, handlers, accept_order>>
storeVars == <<week, plans, sessions, seq, n_requests, strengths, inflight,
               chatVars, last>>

----------------------------------------------------------------------------
(* Program constants and model bounds *)

MaxSubjects == 8
MinStrength == 1
MaxStrength == 5
DefaultStrength == 3

\* Number of courses that carry an explicit strength rating in an input.
MaxRated == 2
\* Largest daily_study_time drawn.
MaxTime == 100
\* Topic ids and order values are drawn from 1..MaxTopics.
MaxTopics == 3
\* Courses of the catalogue are 1..MaxCatalog.
MaxCatalog == 3
\* Number of plan rows ever inserted, and of requests served.
MaxPlans == 2
MaxRequests == 3

----------------------------------------------------------------------------
(* Python helpers *)

Min2(a, b) == IF a <= b THEN a ELSE b
Max2(a, b) == IF a >= b THEN a ELSE b
SetMin(S) == CHOOSE x \in S : \A y \in S : x <= y
Elems(s) == {s[i] : i \in 1..Len(s)}
EmptyDict == [k \in {} |-> 0]
None == <<>>
Some(x) == <<x>>

\* [x] * n
RECURSIVE Repeat(_, _)
Repeat(x, n) == IF n <= 0 THEN <<>> ELSE <<x>> \o Repeat(x, n - 1)

\* d.get(k, default)
DictGet(d, k, default) == IF k \in DOMAIN d THEN d[k] ELSE default

----------------------------------------------------------------------------
(* model/study_plans.py: DayOfWeek, and the `days` list of the allocator *)

days == <<"monday", "tuesday", "wednesday", "thursday", "friday">>
DayOfWeek == Elems(days)

----------------------------------------------------------------------------
(* StudyPlanService.get_weekly_frequency *)

get_weekly_frequency_balanced_max3(num_subjects) ==
    IF num_subjects <= 2
    THEN [strategy |-> "frequent", min_appearances |-> 2, max_appearances |-> 3]
    ELSE IF num_subjects <= 4
    THEN [strategy |-> "balanced", min_appearances |-> 1, max_appearances |-> 3]
    ELSE IF num_subjects <= 6
    THEN [strategy |-> "rotate", min_appearances |-> 1, max_appearances |-> 1]
    ELSE [strategy |-> "priority_rotate", min_appearances |-> 1, max_appearances |-> 1]

get_weekly_frequency(num_subjects) ==
    IF num_subjects <= 2
    THEN [strategy |-> "frequent", min_appearances |-> 2, max_appearances |-> 3]
    ELSE IF num_subjects <= 4
    THEN [strategy |-> "balanced", min_appearances |-> 1, max_appearances |-> 2]
    ELSE IF num_subjects <= 6
    THEN [strategy |-> "rotate", min_appearances |-> 1, max_appearances |-> 1]
    ELSE [strategy |-> "priority_rotate", min_appearances |-> 1, max_appearances |-> 1]

----------------------------------------------------------------------------
(* StudyPlanService.allocate_subjects_to_days *)

\* sort_key(course): (0 if core else 1, strength or 3)
sort_key_strongest_first(course, core, ratings) ==
    <<IF course \in Elems(core) THEN 0 ELSE 1,
      0 - DictGet(ratings, course, DefaultStrength)>>

sort_key(course, core, ratings) ==
    <<IF course \in Elems(core) THEN 0 ELSE 1,
      DictGet(ratings, course, DefaultStrength)>>

\* Python tuple comparison a <= b on 2-tuples
KeyLE(a, b) == a[1] < b[1] \/ (a[1] = b[1] /\ a[2] <= b[2])

\* sorted(all_subjects, key=sort_key): a stable sort, built by inserting each
\* element after every element whose key is not greater.
RECURSIVE sorted_by_key(_, _, _)
sorted_by_key(subjects, core, ratings) ==
    IF subjects = <<>> THEN <<>>
    ELSE LET n == Len(subjects)
             front == sorted_by_key(SubSeq(subjects, 1, n - 1), core, ratings)
             x == subjects[n]
             p == Cardinality({i \in 1..Len(front) :
                      KeyLE(sort_key(front[i], core, ratings),
                            sort_key(x, core, ratings))})
         IN SubSeq(front, 1, p) \o <<x>> \o SubSeq(front, p + 1, Len(front))

\* First pass: every subject gets min_appearances.
first_pass(sorted_subjects, freq) ==
    [s \in Elems(sorted_subjects) |-> freq.min_appearances]

\* Second pass: the loop "for subject in sorted_subjects" that hands the
\* remaining slots out, from position i on.
RECURSIVE distribute_remaining(_, _, _, _, _)
distribute_remaining(subject_counts, remaining_slots, sorted_subjects, freq, i) ==
    IF i > Len(sorted_subjects) \/ remaining_slots <= 0 THEN subject_counts
    ELSE LET s == sorted_subjects[i]
             max_extra == freq.max_appearances - subject_counts[s]
             can_add == Min2(remaining_slots, max_extra)
         IN distribute_remaining([subject_counts EXCEPT ![s] = @ + can_add],
                                 remaining_slots - can_add,
                                 sorted_subjects, freq, i + 1)

subject_counts_of(sorted_subjects, freq) ==
    LET remaining_slots == Len(days) - Len(sorted_subjects) * freq.min_appearances
    IN distribute_remaining(first_pass(sorted_subjects, freq), remaining_slots,
                            sorted_subjects, freq, 1)

\* allocation_list.extend([subject] * count) for subject in sorted_subjects
RECURSIVE expand_counts(_, _, _)
expand_counts(sorted_subjects, subject_counts, i) ==
    IF i > Len(sorted_subjects) THEN <<>>
    ELSE Repeat(sorted_subjects[i], subject_counts[sorted_subjects[i]])
         \o expand_counts(sorted_subjects, subject_counts, i + 1)

\* while len(allocation_list) < len(days): allocation_list.extend(sorted_subjects)
RECURSIVE fill_with_rotation(_, _)
fill_with_rotation(allocation_list, sorted_subjects) ==
    IF Len(allocation_list) < Len(days)
    THEN fill_with_rotation(allocation_list \o sorted_subjects, sorted_subjects)
    ELSE allocation_list

frequency_list_no_fill(sorted_subjects, freq) ==
    expand_counts(sorted_subjects, subject_counts_of(sorted_subjects, freq), 1)

\* The frequent/balanced branch: the list assigned positionally to the days.
frequency_list(sorted_subjects, freq) ==
    fill_with_rotation(
        expand_counts(sorted_subjects, subject_counts_of(sorted_subjects, freq), 1),
        sorted_subjects)

\* for i, day in enumerate(days): if i < len(allocation_list): allocation[day] = ...
assign_to_days(allocation_list) ==
    [d \in {days[i] : i \in 1..Min2(Len(days), Len(allocation_list))} |->
        allocation_list[CHOOSE i \in 1..Len(days) : days[i] = d]]

\* The rotate/priority_rotate branch: sorted_subjects[i % len(sorted_subjects)]
rotate_from_second(sorted_subjects) ==
    [d \in DayOfWeek |->
        LET i == (CHOOSE k \in 1..Len(days) : days[k] = d) - 1
        IN sorted_subjects[((i + 1) % Len(sorted_subjects)) + 1]]

rotate(sorted_subjects) ==
    [d \in DayOfWeek |->
        LET i == (CHOOSE k \in 1..Len(days) : days[k] = d) - 1
        IN sorted_subjects[(i % Len(sorted_subjects)) + 1]]

\* The final check, from index i (1-based position in days) on.
RECURSIVE final_check_from(_, _)
final_check_from(alloc, i) ==
    IF i > Len(days) THEN alloc
    ELSE LET current_day == days[i]
             prev_day == days[i - 1]
         IN IF current_day \in DOMAIN alloc /\ prev_day \in DOMAIN alloc
               /\ alloc[current_day] = alloc[prev_day]
            THEN LET J == {j \in (i + 1)..Len(days) :
                              days[j] \in DOMAIN alloc
                              /\ alloc[days[j]] # alloc[current_day]}
                 IN IF J = {} THEN final_check_from(alloc, i + 1)
                    ELSE LET swap_day == days[SetMin(J)]
                         IN final_check_from(
                                [alloc EXCEPT ![current_day] = alloc[swap_day],
                                              ![swap_day] = alloc[current_day]],
                                i + 1)
            ELSE final_check_from(alloc, i + 1)

final_check_skipped(alloc) == alloc

final_check(alloc) == final_check_from(alloc, 2)

\* The allocation before the final check.
allocation_before_final_check(core, electives, ratings) ==
    LET all_subjects == core \o electives
        freq_strategy == get_weekly_frequency(Len(all_subjects))
        sorted_subjects == sorted_by_key(all_subjects, core, ratings)
    IN IF freq_strategy.strategy \in {"frequent", "balanced"}
       THEN assign_to_days(frequency_list(sorted_subjects, freq_strategy))
       ELSE rotate(sorted_subjects)

allocate_subjects_to_days(core, electives, ratings) ==
    IF Len(core \o electives) = 0 THEN EmptyDict
    ELSE final_check(allocation_before_final_check(core, electives, ratings))

----------------------------------------------------------------------------
(* StudyPlanService.select_topic_for_course *)

\* sorted(available_topics, key=lambda t: t.order): stable insertion by order
RECURSIVE sorted_by_order(_)
sorted_by_order(topics) ==
    IF topics = <<>> THEN <<>>
    ELSE LET n == Len(topics)
             front == sorted_by_order(SubSeq(topics, 1, n - 1))
             x == topics[n]
             p == Cardinality({i \in 1..Len(front) : front[i].order <= x.order})
         IN SubSeq(front, 1, p) \o <<x>> \o SubSeq(front, p + 1, Len(front))

\* Course.topics: relationship(..., order_by="Topic.order") over the course's
\* topic rows; (course_id, order) is unique.
topics_relationship(rows) ==
    LET byOrder == [o \in {r.order : r \in rows} |->
                       CHOOSE r \in rows : r.order = o]
        RECURSIVE asc(_)
        asc(O) == IF O = {} THEN <<>>
                  ELSE LET m == SetMin(O) IN <<byOrder[m]>> \o asc(O \ {m})
    IN asc(DOMAIN byOrder)

select_topic_fallback_first(topics, completed) ==
    LET available_topics == SelectSeq(topics, LAMBDA t : t.id \notin completed)
    IN IF available_topics = <<>>
       THEN IF topics # <<>> THEN Some(topics[1]) ELSE None
       ELSE Some(sorted_by_order(available_topics)[1])

select_topic_for_course(topics, completed) ==
    LET available_topics == SelectSeq(topics, LAMBDA t : t.id \notin completed)
    IN IF available_topics = <<>>
       THEN IF topics # <<>> THEN Some(topics[Len(topics)]) ELSE None
       ELSE Some(sorted_by_order(available_topics)[1])

----------------------------------------------------------------------------
(* StudyPlanService.generate_tasks *)

Task(type, duration) == [type |-> type, duration |-> duration]

RECURSIVE total_duration(_)
total_duration(ts) ==
    IF ts = <<>> THEN 0 ELSE ts[1].duration + total_duration(Tail(ts))

tasks_for_time_lt30(t) ==
    IF t < 30
    THEN <<Task("reading", Max2(10, t \div 2)),
           Task("quiz", Max2(5, t - (t \div 2)))>>
    ELSE IF t <= 45
    THEN <<Task("reading", 15), Task("flashcards", 10), Task("quiz", 15)>>
    ELSE <<Task("reading", 20), Task("flashcards", 15), Task("quiz", 20)>>

\* The if/elif/else that picks the task list for the available time.
tasks_for_time(t) ==
    IF t <= 30
    THEN <<Task("reading", Max2(10, t \div 2)),
           Task("quiz", Max2(5, t - (t \div 2)))>>
    ELSE IF t <= 45
    THEN <<Task("reading", 15), Task("flashcards", 10), Task("quiz", 15)>>
    ELSE <<Task("reading", 20), Task("flashcards", 15), Task("quiz", 20)>>

\* "Reduce durations proportionally": max(5, int(duration * (t / total))).
\* The float product truncates to the integer quotient (duration * t) div total
\* for every t in 1..199.
scale_down(ts, t, total) ==
    [i \in 1..Len(ts) |->
        [ts[i] EXCEPT !.duration = Max2(5, (ts[i].duration * t) \div total)]]

distribute_extra_to_quiz(ts, extra_time) ==
    [ts EXCEPT ![3].duration = @ + extra_time]

\* "Distribute extra time to reading and quiz": tasks[0] and tasks[2]
distribute_extra(ts, extra_time) ==
    [ts EXCEPT ![1].duration = @ + (extra_time \div 2),
               ![3].duration = @ + (extra_time - (extra_time \div 2))]

generate_tasks(t) ==
    LET ts == tasks_for_time(t)
        total == total_duration(ts)
    IN IF total > t THEN scale_down(ts, t, total)
       ELSE IF total < t THEN distribute_extra(ts, t - total)
       ELSE ts

----------------------------------------------------------------------------
(* util/error.py and service/redis.py: the cache client *)

\* handle_redis_error: TRUE when the RedisError raised inside the with block
\* escapes it.  The except clause returns, so the context manager swallows
\* the error and the wrapped method falls through, returning None.
handle_redis_error_reraise(raised) == raised

handle_redis_error(raised) == FALSE

\* Redis.get_json: json.loads(data) if data else None
redis_get_json(c, key, fault) ==
    [raised |-> handle_redis_error(fault),
     value |-> IF fault \/ key \notin DOMAIN c THEN None ELSE Some(c[key])]

redis_set_json_dropped(c, key, data, fault) ==
    [raised |-> handle_redis_error(fault), cache |-> c]

\* Redis.set_json: SET key json.dumps(data) EX expiry
redis_set_json(c, key, data, fault) ==
    [raised |-> handle_redis_error(fault),
     cache |-> IF fault THEN c
               ELSE [k \in DOMAIN c \cup {key} |-> IF k = key THEN data ELSE c[k]]]

\* Redis.delete: DEL key
redis_delete(c, key, fault) ==
    [raised |-> handle_redis_error(fault),
     cache |-> IF fault THEN c ELSE [k \in DOMAIN c \ {key} |-> c[k]]]

CoreNamesKey == <<"core_course_names">>

----------------------------------------------------------------------------
(* StudyPlanService.categorize_subjects *)

\* Course.get_core_course_names: the names of the courses of type CORE.
\* A course's unique name stands for the course.
get_core_course_names(types) == {c \in DOMAIN types : types[c] = "core"}

\* for course in courses: core.append / electives.append
split_by_names(courses, core_course_names) ==
    [core |-> SelectSeq(courses, LAMBDA c : c \in core_course_names),
     electives |-> SelectSeq(courses, LAMBDA c : c \notin core_course_names)]

categorize_subjects(courses, c, types, get_fault, set_fault) ==
    LET got == redis_get_json(c, CoreNamesKey, get_fault)
        \* "if cached_names:" is false for None and for an empty list
        hit == got.value # None /\ got.value[1] # {}
        names == IF hit THEN got.value[1] ELSE get_core_course_names(types)
        put == IF hit THEN [raised |-> FALSE, cache |-> c]
               ELSE redis_set_json(c, CoreNamesKey, names, set_fault)
    IN [raised |-> got.raised \/ put.raised,
        result |-> split_by_names(courses, names),
        cache |-> put.cache]

----------------------------------------------------------------------------
(* Weekly plans: model/study_plans.py, service/study_plans.py and          *)
(* controller/study_plans.py                                               *)

Users == {"u1", "u2"}

CurrentWeekKey(user_id) == <<"user_current_week_plan", user_id>>
StudyPlansKey(user_id) == <<"user_study_plans", user_id>>

\* Which Redis commands fail while one request is served: none (Redis is
\* reachable) or all of them (it is not).
RedisFaults == {{}, {"get", "set", "delete"}}

\* DailyStudySessionOut; course_name and topic_subject follow from the ids.
DailyStudySessionOut(s) ==
    [id |-> s.id, day_of_week |-> s.day_of_week, course_id |-> s.course_id,
     topic_id |-> s.topic_id, tasks |-> s.tasks]

\* StudyPlanOut built from a plan row and its daily_sessions relationship.
StudyPlanOut(p, sess) ==
    [id |-> p.id, user_id |-> p.user_id, week_start_date |-> p.week_start_date,
     daily_sessions |->
        {DailyStudySessionOut(x) : x \in {y \in sess : y.study_plan_id = p.id}}]

\* serialize_data(result.model_dump()): the date becomes its ISO string
\* (enum members already carry their string value here).
isoformat(d) == <<"iso", d>>
fromisoformat(str) == str[2]
serialize_data(out) == [out EXCEPT !.week_start_date = isoformat(@)]
\* StudyPlanOut(**cached_result): pydantic parses the ISO string
parse_cached(data) == [data EXCEPT !.week_start_date = fromisoformat(@)]

\* The rows StudyPlan.get_current_week_plan filters; .first() returns one of
\* them, the query has no ORDER BY.
PlansOfWeek(pl, user_id, week_start) ==
    {p \in pl : p.user_id = user_id /\ p.week_start_date = week_start}
FirstOf(rows) == IF rows = {} THEN {None} ELSE {Some(r) : r \in rows}

Response(status, body, source, c) ==
    [status |-> status, body |-> body, source |-> source, cache |-> c]

\* The "Invalidate caches" pair of deletes of generate, swap and delete.
invalidate_caches_plans_only(c, user_id, fault) ==
    redis_delete(c, StudyPlansKey(user_id), fault)

invalidate_caches(c, user_id, fault) ==
    LET d1 == redis_delete(c, CurrentWeekKey(user_id), fault)
        d2 == redis_delete(d1.cache, StudyPlansKey(user_id), fault)
    IN [raised |-> d1.raised \/ d2.raised,
        cache |-> IF d1.raised THEN d1.cache ELSE d2.cache]

\* StudyPlanController.get_current_week_plan; `first` is what the query of
\* StudyPlanService.get_current_week_plan returns when it is run.
get_current_week_plan(user_id, c, sess, first, faults) ==
    LET got == redis_get_json(c, CurrentWeekKey(user_id), "get" \in faults)
    IN IF got.raised THEN Response(500, None, "none", c)
       ELSE IF got.value # None
       THEN Response(200, Some(parse_cached(got.value[1])), "cache", c)
       ELSE IF first = None THEN Response(404, None, "db", c)
       ELSE LET result == StudyPlanOut(first[1], sess)
                put == redis_set_json(c, CurrentWeekKey(user_id),
                                      serialize_data(result), "set" \in faults)
            IN IF put.raised THEN Response(500, None, "db", put.cache)
               ELSE Response(200, Some(result), "db", put.cache)

\* StudyPlanController.get_user_study_plans; an empty cached list is falsy.
get_user_study_plans(user_id, c, pl, sess, faults) ==
    LET got == redis_get_json(c, StudyPlansKey(user_id), "get" \in faults)
    IN IF got.raised THEN Response(500, {}, "none", c)
       ELSE IF got.value # None /\ got.value[1] # {}
       THEN Response(200, {parse_cached(d) : d \in got.value[1]}, "cache", c)
       ELSE LET result == {StudyPlanOut(p, sess) :
                              p \in {q \in pl : q.user_id = user_id}}
                put == redis_set_json(c, StudyPlansKey(user_id),
                                      {serialize_data(r) : r \in result},
                                      "set" \in faults)
            IN IF put.raised THEN Response(500, {}, "db", put.cache)
               ELSE Response(200, result, "db", put.cache)

\* "not plan or str(plan.user_id) != user_id"
not_found_unchecked(pl, user_id, plan_id) ==
    ~\E p \in pl : p.id = plan_id

not_found(pl, user_id, plan_id) ==
    ~\E p \in pl : p.id = plan_id /\ p.user_id = user_id

\* StudyPlanController.get_study_plan_by_id
get_study_plan_by_id(user_id, plan_id, c, pl, sess) ==
    IF not_found(pl, user_id, plan_id) THEN Response(404, None, "db", c)
    ELSE Response(200,
                  Some(StudyPlanOut(CHOOSE p \in pl : p.id = plan_id, sess)),
                  "db", c)

\* StudyPlanController.get_study_plan_by_week; week_date is None when the
\* string is no ISO date.
get_study_plan_by_week(user_id, week_date, c, sess, first) ==
    IF week_date = None THEN Response(400, None, "none", c)
    ELSE IF first = None THEN Response(404, None, "db", c)
    ELSE Response(200, Some(StudyPlanOut(first[1], sess)), "db", c)

\* The catalogue the plan requests draw on: course 1 is core and has two
\* topics, courses 2 and 3 are electives, course 2 has no topic and course 3
\* has one.
CatalogTypes == [c \in {1, 2, 3} |-> IF c = 1 THEN "core" ELSE "elective"]
CatalogTopics(course_id) ==
    IF course_id = 1
    THEN {[id |-> 11, order |-> 1], [id |-> 12, order |-> 2]}
    ELSE IF course_id = 3 THEN {[id |-> 31, order |-> 1]}
    ELSE {}

\* The user's rows of subject_strengths as a dict course id -> strength.
stored_strengths(rows, user_id) ==
    [c \in {r.course_id : r \in {x \in rows : x.user_id = user_id}} |->
        (CHOOSE r \in rows : r.user_id = user_id /\ r.course_id = c).strength]

strength_dict_with_stored(data, stored) ==
    [c \in DOMAIN stored \cup DOMAIN data.strength_ratings |->
        IF c \in DOMAIN stored THEN stored[c] ELSE data.strength_ratings[c]]

\* "Strength dict" of generate_study_plan: built from the request alone.
strength_dict(data, stored) == data.strength_ratings

update_strength_insert_only(rows, user_id, course_id, strength) ==
    rows \cup {[id |-> Cardinality(rows) + 1, user_id |-> user_id,
                course_id |-> course_id, strength |-> strength]}

\* StudyPlanController.update_strength: `existing` is the row .first() of
\* SubjectStrength.get_strength returned.
update_strength(rows, user_id, course_id, strength) ==
    LET found == {r \in rows : r.user_id = user_id /\ r.course_id = course_id}
    IN IF found # {}
       THEN LET existing == CHOOSE r \in found : \A q \in found : r.id <= q.id
            IN (rows \ {existing}) \cup {[existing EXCEPT !.strength = strength]}
       ELSE rows \cup {[id |-> Cardinality(rows) + 1, user_id |-> user_id,
                        course_id |-> course_id, strength |-> strength]}

update_strength_cache_invalidating(c, user_id) ==
    invalidate_caches(c, user_id, FALSE).cache

\* The cache after update_strength: the handler issues no Redis command.
update_strength_cache(c, user_id) == c

RECURSIVE planned_sessions_break(_, _, _)
planned_sessions_break(alloc, data, i) ==
    IF i > Len(days) \/ days[i] \notin DOMAIN alloc THEN <<>>
    ELSE LET course == alloc[days[i]]
             topic == select_topic_for_course(
                          topics_relationship(CatalogTopics(course)),
                          data.completed_topics)
         IN IF topic = None THEN <<>>
            ELSE <<[day_of_week |-> days[i], course_id |-> course,
                    topic_id |-> topic[1].id,
                    tasks |-> generate_tasks(data.daily_study_time)]>>
                 \o planned_sessions_break(alloc, data, i + 1)

\* The session rows generate_study_plan builds, in the order it saves them:
\* one per allocated day whose course has a topic.
RECURSIVE planned_sessions(_, _, _)
planned_sessions(alloc, data, i) ==
    IF i > Len(days) \/ days[i] \notin DOMAIN alloc THEN <<>>
    ELSE LET course == alloc[days[i]]
             topic == select_topic_for_course(
                          topics_relationship(CatalogTopics(course)),
                          data.completed_topics)
             rest == planned_sessions(alloc, data, i + 1)
         IN IF topic = None THEN rest
            ELSE <<[day_of_week |-> days[i], course_id |-> course,
                    topic_id |-> topic[1].id,
                    tasks |-> generate_tasks(data.daily_study_time)]>> \o rest

\* StudyPlanService.generate_study_plan from "Create study plan" on: `cat`
\* is what categorize_subjects returned and `rows` the sessions to create.
\* Every save() commits on its own, and save number fail_at (1 = the plan
\* row, k + 1 = the k-th session row) raises; 0 = none does.
StudyPlanService_generate_study_plan(user_id, cat, rows, week_start, sq, fail_at) ==
    LET plan == [id |-> sq.plan + 1, user_id |-> user_id,
                 week_start_date |-> week_start]
        failed == fail_at \in 1..(1 + Len(rows))
        saved == IF failed THEN fail_at - 2 ELSE Len(rows)
    IN IF cat.raised
       THEN [raised |-> TRUE, plan_id |-> 0, plans |-> {}, sessions |-> {},
             seq |-> sq, cache |-> cat.cache]
       ELSE [raised |-> failed,
             plan_id |-> plan.id,
             plans |-> IF fail_at = 1 THEN {} ELSE {plan},
             sessions |->
                {[id |-> sq.session + k, study_plan_id |-> plan.id,
                  day_of_week |-> rows[k].day_of_week,
                  course_id |-> rows[k].course_id,
                  topic_id |-> rows[k].topic_id,
                  tasks |-> rows[k].tasks] : k \in 1..saved},
             seq |-> IF fail_at = 1 THEN sq
                     ELSE [plan |-> plan.id,
                           session |-> sq.session + Max2(saved, 0)],
             cache |-> cat.cache]

\* StudyPlanController.generate_study_plan; `made` is the outcome of the
\* service call.
StudyPlanController_generate_study_plan(user_id, made, faults) ==
    LET inv == invalidate_caches(made.cache, user_id, "delete" \in faults)
    IN IF made.raised
       THEN [status |-> 400, plan_id |-> 0, plans |-> made.plans,
             sessions |-> made.sessions, seq |-> made.seq,
             cache |-> made.cache]
       ELSE [status |-> IF inv.raised THEN 400 ELSE 200,
             plan_id |-> made.plan_id, plans |-> made.plans,
             sessions |-> made.sessions, seq |-> made.seq,
             cache |-> inv.cache]

StudyPlanService_swap_days_move_only(sess, first, from_session, to_session, fail_at) ==
    IF first = None \/ from_session = None \/ to_session = None
    THEN [success |-> FALSE, raised |-> FALSE, sessions |-> sess]
    ELSE [success |-> fail_at \notin {1, 2},
          raised |-> fail_at \in {1, 2},
          sessions |->
             {IF x.id = from_session[1].id /\ fail_at # 1
              THEN [x EXCEPT !.day_of_week = to_session[1].day_of_week]
              ELSE x : x \in sess}]

\* StudyPlanService.swap_days.  `first` is the plan the query returned,
\* from_session and to_session what next(...) found in the session list;
\* save number fail_at (1 or 2) raises.
StudyPlanService_swap_days(sess, first, from_session, to_session, fail_at) ==
    IF first = None \/ from_session = None \/ to_session = None
    THEN [success |-> FALSE, raised |-> FALSE, sessions |-> sess]
    ELSE LET a == from_session[1]
             b == to_session[1]
             relabel(x) ==
                IF x.id = a.id /\ fail_at # 1
                THEN [x EXCEPT !.day_of_week = b.day_of_week]
                ELSE IF x.id = b.id /\ fail_at \notin {1, 2}
                THEN [x EXCEPT !.day_of_week = a.day_of_week]
                ELSE x
         IN [success |-> fail_at \notin {1, 2},
             raised |-> fail_at \in {1, 2},
             sessions |-> {relabel(x) : x \in sess}]

StudyPlanController_swap_days_always_invalidate(user_id, c, sess, first, from_session, to_session, fail_at, faults) ==
    LET done == StudyPlanService_swap_days(sess, first, from_session,
                                           to_session, fail_at)
        inv == invalidate_caches(c, user_id, "delete" \in faults)
    IN [status |-> IF done.raised THEN 500
                   ELSE IF ~done.success THEN 400 ELSE 200,
        sessions |-> done.sessions, cache |-> inv.cache]

\* StudyPlanController.swap_days
StudyPlanController_swap_days(user_id, c, sess, first, from_session, to_session, fail_at, faults) ==
    LET done == StudyPlanService_swap_days(sess, first, from_session,
                                           to_session, fail_at)
        inv == invalidate_caches(c, user_id, "delete" \in faults)
    IN IF done.raised
       THEN [status |-> 500, sessions |-> done.sessions, cache |-> c]
       ELSE IF ~done.success
       THEN [status |-> 400, sessions |-> done.sessions, cache |-> c]
       ELSE [status |-> IF inv.raised THEN 500 ELSE 200,
             sessions |-> done.sessions, cache |-> inv.cache]

\* StudyPlanController.delete_study_plan; the delete cascades to the plan's
\* daily_sessions.
StudyPlanController_delete_study_plan(user_id, plan_id, c, pl, sess, faults) ==
    LET inv == invalidate_caches(c, user_id, "delete" \in faults)
    IN IF not_found(pl, user_id, plan_id)
       THEN [status |-> 404, plans |-> pl, sessions |-> sess, cache |-> c]
       ELSE [status |-> IF inv.raised THEN 500 ELSE 200,
             plans |-> {p \in pl : p.id # plan_id},
             sessions |-> {x \in sess : x.study_plan_id # plan_id},
             cache |-> inv.cache]

----------------------------------------------------------------------------
(* Inputs of the allocator *)

\* n distinct course ids in input order; ids ascending or descending.
CourseIds(n, rev) == [i \in 1..n |-> IF rev THEN n + 1 - i ELSE i]

\* strength_dict: a dict from at most MaxRated of the course ids to 1..5
RatingDicts(ids) ==
    UNION {[R -> MinStrength..MaxStrength] :
              R \in {S \in SUBSET ids : Cardinality(S) <= MaxRated}}

IdleAlloc ==
    /\ core_courses = <<>>
    /\ elective_courses = <<>>
    /\ strength_ratings = EmptyDict
    /\ allocation = EmptyDict

IdleTasks ==
    /\ daily_study_time = 0
    /\ tasks = <<>>

IdleTopic ==
    /\ course_topics = <<>>
    /\ completed_topic_ids = {}
    /\ selected_topic = None

IdleCat ==
    /\ course_type = EmptyDict
    /\ cache = EmptyDict
    /\ cat_courses = <<>>
    /\ categorized = [core |-> <<>>, electives |-> <<>>]

NoRequest == [op |-> "none"]

\* No request in flight
IdleRequests ==
    [get |-> [pc |-> "idle", result |-> None],
     write |-> [pc |-> "idle", op |-> "none", plan |-> None,
                from_session |-> None, to_session |-> None]]

IdleStore ==
    /\ week = 1
    /\ plans = {}
    /\ sessions = {}
    /\ seq = [plan |-> 0, session |-> 0]
    /\ n_requests = 0
    /\ strengths = {}
    /\ inflight = IdleRequests
    /\ active_connections = EmptyDict
    /\ handlers = EmptyDict
    /\ accept_order = <<>>
    /\ last = NoRequest

InitAlloc ==
    /\ pc = "call"
    /\ \E n \in 0..MaxSubjects, rev \in BOOLEAN :
          \E k \in 0..n :
             LET ids == CourseIds(n, rev) IN
             /\ core_courses = SubSeq(ids, 1, k)
             /\ elective_courses = SubSeq(ids, k + 1, n)
             /\ strength_ratings \in RatingDicts(Elems(ids))
    /\ allocation = EmptyDict
    /\ IdleTasks
    /\ IdleTopic
    /\ IdleCat
    /\ IdleStore

Allocate ==
    /\ pc = "call"
    /\ allocation' = allocate_subjects_to_days(core_courses, elective_courses,
                                               strength_ratings)
    /\ pc' = "return"
    /\ UNCHANGED <<core_courses, elective_courses, strength_ratings>>
    /\ UNCHANGED <<taskVars, topicVars, catVars, storeVars>>

NextAlloc == Allocate

SpecAlloc == InitAlloc /\ [][NextAlloc]_vars

----------------------------------------------------------------------------
(* The task generator, called once on a drawn daily_study_time *)

InitTasks ==
    /\ pc = "call"
    /\ daily_study_time \in 1..MaxTime
    /\ tasks = <<>>
    /\ IdleAlloc
    /\ IdleTopic
    /\ IdleCat
    /\ IdleStore

GenerateTasks ==
    /\ pc = "call"
    /\ tasks' = generate_tasks(daily_study_time)
    /\ pc' = "return"
    /\ UNCHANGED daily_study_time
    /\ UNCHANGED <<allocVars, topicVars, catVars, storeVars>>

NextTasks == GenerateTasks

SpecTasks == InitTasks /\ [][NextTasks]_vars

----------------------------------------------------------------------------
(* The topic selector, called once on a drawn course and completed list *)

\* Topic rows of one course: distinct ids, distinct order values.
TopicRows ==
    {S \in SUBSET [id : 1..MaxTopics, order : 1..MaxTopics] :
        \A a, b \in S : a # b => (a.id # b.id /\ a.order # b.order)}

InitTopic ==
    /\ pc = "call"
    /\ \E rows \in TopicRows : course_topics = topics_relationship(rows)
    /\ completed_topic_ids \in SUBSET (1..MaxTopics)
    /\ selected_topic = None
    /\ IdleAlloc
    /\ IdleTasks
    /\ IdleCat
    /\ IdleStore

SelectTopic ==
    /\ pc = "call"
    /\ selected_topic' = select_topic_for_course(course_topics, completed_topic_ids)
    /\ pc' = "return"
    /\ UNCHANGED <<course_topics, completed_topic_ids>>
    /\ UNCHANGED <<allocVars, taskVars, catVars, storeVars>>

NextTopic == SelectTopic

SpecTopic == InitTopic /\ [][NextTopic]_vars

----------------------------------------------------------------------------
(* Properties of the day allocator *)

AllSubjects == core_courses \o elective_courses
NumSubjects == Len(AllSubjects)
Returned == pc = "return"

\* Number of weekdays on which course c appears in the returned allocation.
Appearances(c) == Cardinality({d \in DOMAIN allocation : allocation[d] = c})

\* The priority order as the specification words it: core before elective,
\* then ascending strength (3 when unrated), ties in input order.
InputPos(c) == CHOOSE i \in 1..NumSubjects : AllSubjects[i] = c
IsCore(c) == c \in Elems(core_courses)
StrengthOf(c) ==
    IF c \in DOMAIN strength_ratings THEN strength_ratings[c] ELSE 3
Before(c, d) ==
    \/ IsCore(c) /\ ~IsCore(d)
    \/ IsCore(c) = IsCore(d) /\ StrengthOf(c) < StrengthOf(d)
    \/ IsCore(c) = IsCore(d) /\ StrengthOf(c) = StrengthOf(d)
       /\ InputPos(c) < InputPos(d)
\* 0-based position of c in the priority order
PriorityIndex(c) == Cardinality({d \in Elems(AllSubjects) : Before(d, c)})

\* C1: for 1 to 8 distinct courses the returned mapping assigns all 5 weekdays,
\* each to one of the input courses, and with at most 5 courses every input
\* course is assigned to at least one weekday.
C1_AllWeekdaysAssigned ==
    (Returned /\ NumSubjects \in 1..8) =>
        /\ DOMAIN allocation = DayOfWeek
        /\ \A d \in DOMAIN allocation : allocation[d] \in Elems(AllSubjects)
        /\ NumSubjects <= 5 =>
              \A c \in Elems(AllSubjects) : Appearances(c) >= 1

C1_Witness ==
    /\ Returned
    /\ NumSubjects = 1
    /\ DOMAIN allocation = DayOfWeek
    /\ \A d \in DayOfWeek : allocation[d] = AllSubjects[1]

\* C2: for 2 to 8 distinct courses no two consecutive weekdays of the returned
\* mapping carry the same course.
C2_NoAdjacentRepeat ==
    (Returned /\ NumSubjects \in 2..8) =>
        \A i \in 1..(Len(days) - 1) :
            (days[i] \in DOMAIN allocation /\ days[i + 1] \in DOMAIN allocation)
                => allocation[days[i]] # allocation[days[i + 1]]

\* A two-course input: the list before the final check is A,A,A,B,B and the
\* final check turns it into A,B,A,B,A.
C2_Witness ==
    /\ Returned
    /\ NumSubjects = 2
    /\ allocation # allocation_before_final_check(core_courses, elective_courses,
                                                  strength_ratings)
    /\ allocation["monday"] = allocation["wednesday"]
    /\ allocation["monday"] = allocation["friday"]
    /\ allocation["tuesday"] = allocation["thursday"]
    /\ allocation["monday"] # allocation["tuesday"]

\* The frequency table as the specification states it.
PolicyMin(n) == IF n <= 2 THEN 2 ELSE 1
PolicyMax(n) == IF n <= 2 THEN 3 ELSE 2
TotalAppearances ==
    Cardinality({d \in DOMAIN allocation : allocation[d] \in Elems(AllSubjects)})
WithinPolicy ==
    /\ \A c \in Elems(AllSubjects) :
          /\ Appearances(c) >= PolicyMin(NumSubjects)
          /\ Appearances(c) <= PolicyMax(NumSubjects)
    /\ TotalAppearances = 5

\* C3 as stated: for 1 to 4 courses every course appears at least the policy
\* minimum and at most the policy maximum number of weekdays, and the
\* appearance counts sum to 5.
C3_AsStated == (Returned /\ NumSubjects \in 1..4) => WithinPolicy

\* C3 amended: the policy bounds hold for 2 to 4 courses; a single course is
\* padded over the policy maximum and appears on all 5 weekdays.
C3_Amended ==
    /\ (Returned /\ NumSubjects \in 2..4) => WithinPolicy
    /\ (Returned /\ NumSubjects = 1) =>
          /\ Appearances(AllSubjects[1]) = 5
          /\ TotalAppearances = 5

C3_Witness ==
    /\ Returned
    /\ NumSubjects = 3
    /\ \E c, d, e \in Elems(AllSubjects) :
          /\ Appearances(c) = 2
          /\ Appearances(d) = 2
          /\ Appearances(e) = 1
          /\ c # d

\* C4: for 5 to 8 courses weekday i (Monday = 0) gets the course at position
\* i % count of the priority order, and the final check changes nothing.
C4_RotateByPriority ==
    (Returned /\ NumSubjects \in 5..8) =>
        /\ DOMAIN allocation = DayOfWeek
        /\ \A i \in 0..4 :
              PriorityIndex(allocation[days[i + 1]]) = i % NumSubjects
        /\ allocation = allocation_before_final_check(
                            core_courses, elective_courses, strength_ratings)

\* An input whose priority order differs from its input order:
\* the second core course is weaker than the first.
C4_Witness ==
    /\ Returned
    /\ NumSubjects = 6
    /\ Len(core_courses) = 2
    /\ StrengthOf(core_courses[2]) < StrengthOf(core_courses[1])
    /\ allocation["monday"] = core_courses[2]
    /\ allocation["tuesday"] = core_courses[1]

\* C5: a course earlier in the priority order never appears on fewer weekdays
\* than a course later in the priority order.
C5_PriorityMonotone ==
    (Returned /\ NumSubjects \in 1..8) =>
        \A c, d \in Elems(AllSubjects) :
            Before(c, d) => Appearances(c) >= Appearances(d)

C5_Witness ==
    /\ Returned
    /\ NumSubjects = 4
    /\ \E c, d \in Elems(AllSubjects) :
          /\ Before(c, d)
          /\ Appearances(c) = 2
          /\ Appearances(d) = 1

----------------------------------------------------------------------------
(* Properties of the task generator *)

Durations == [i \in 1..Len(tasks) |-> tasks[i].duration]
Types == [i \in 1..Len(tasks) |-> tasks[i].type]
DurationSum == total_duration(tasks)

\* C7 as stated: for every daily_study_time > 45 the tasks are reading 20,
\* flashcards 15 and quiz daily_study_time - 35.
C7_AsStated ==
    (Returned /\ daily_study_time > 45) =>
        /\ Types = <<"reading", "flashcards", "quiz">>
        /\ Durations = <<20, 15, daily_study_time - 35>>

\* C7 amended: for every daily_study_time > 45 there are exactly three tasks
\* reading, flashcards, quiz; from 55 minutes on flashcards stays 15 and the
\* minutes above 55 are split between reading (floor half) and quiz (the
\* rest), so 60 gives 22, 15, 23; between 46 and 54 the durations 20, 15, 20
\* are scaled by time/55 and truncated.
C7_Amended ==
    (Returned /\ daily_study_time > 45) =>
        /\ Types = <<"reading", "flashcards", "quiz">>
        /\ daily_study_time >= 55 =>
              Durations = <<20 + ((daily_study_time - 55) \div 2),
                            15,
                            20 + (daily_study_time - 55)
                               - ((daily_study_time - 55) \div 2)>>
        /\ daily_study_time < 55 =>
              Durations = <<(20 * daily_study_time) \div 55,
                            (15 * daily_study_time) \div 55,
                            (20 * daily_study_time) \div 55>>

C7_Witness ==
    /\ Returned
    /\ daily_study_time = 60
    /\ Types = <<"reading", "flashcards", "quiz">>
    /\ Durations = <<22, 15, 23>>

\* C8 as stated: for 0 < daily_study_time <= 30 the tasks are reading
\* daily_study_time // 2 and quiz daily_study_time - reading, unscaled.
C8_AsStated ==
    (Returned /\ daily_study_time > 0 /\ daily_study_time <= 30) =>
        /\ Types = <<"reading", "quiz">>
        /\ Durations = <<daily_study_time \div 2,
                         daily_study_time - (daily_study_time \div 2)>>

\* C8 amended: the same for 20 <= daily_study_time <= 30; below 20 minutes
\* the floors of 10 and 5 minutes and the scaling pass change the durations.
C8_Amended ==
    (Returned /\ daily_study_time >= 20 /\ daily_study_time <= 30) =>
        /\ Types = <<"reading", "quiz">>
        /\ Durations = <<daily_study_time \div 2,
                         daily_study_time - (daily_study_time \div 2)>>

C8_Witness ==
    /\ Returned
    /\ daily_study_time = 30
    /\ Types = <<"reading", "quiz">>
    /\ Durations = <<15, 15>>

\* C9: for every daily_study_time > 0 the durations sum to at most
\* daily_study_time, fall short of it by less than one minute per task, and
\* sum to it exactly for 30, 40 and 60.
C9_SumWithinBudget ==
    (Returned /\ daily_study_time > 0) =>
        /\ DurationSum <= daily_study_time
        /\ daily_study_time - DurationSum < Len(tasks)
        /\ daily_study_time \in {30, 40, 60} => DurationSum = daily_study_time

----------------------------------------------------------------------------
(* Properties of the topic selector *)

Uncompleted == {t \in Elems(course_topics) : t.id \notin completed_topic_ids}

\* C10: the selector returns the uncompleted topic of smallest order; with
\* every topic completed, the course's topic of largest order; with no topic
\* at all, None.
C10_NextTopicInOrder ==
    Returned =>
        /\ Uncompleted # {} =>
              \E t \in Uncompleted :
                  /\ selected_topic = Some(t)
                  /\ \A u \in Uncompleted : t.order <= u.order
        /\ (Uncompleted = {} /\ course_topics # <<>>) =>
              \E t \in Elems(course_topics) :
                  /\ selected_topic = Some(t)
                  /\ \A u \in Elems(course_topics) : u.order <= t.order
        /\ course_topics = <<>> => selected_topic = None

\* Three topics, all completed: the fallback returns the last one in order.
C10_Witness ==
    /\ Returned
    /\ Len(course_topics) = 3
    /\ Uncompleted = {}
    /\ selected_topic = Some(course_topics[3])
    /\ course_topics[3].order = 3

----------------------------------------------------------------------------
(* The subject classifier over a catalogue that administrators edit *)

Catalog == 1..MaxCatalog
SubjectType == {"core", "elective"}

\* Lists of distinct courses, as Course.get_courses_by_ids returns them.
RECURSIVE DistinctSeqs(_)
DistinctSeqs(S) ==
    {<<>>} \cup UNION {{<<x>> \o t : t \in DistinctSeqs(S \ {x})} : x \in S}

InitCat ==
    /\ pc = "call"
    /\ \E E \in SUBSET Catalog : course_type \in [E -> SubjectType]
    /\ cache = EmptyDict
    /\ cat_courses = <<>>
    /\ categorized = [core |-> <<>>, electives |-> <<>>]
    /\ IdleAlloc
    /\ IdleTasks
    /\ IdleTopic
    /\ IdleStore

\* Course.add
CourseAdd ==
    /\ \E c \in Catalog \ DOMAIN course_type, t \in SubjectType :
          course_type' = [k \in DOMAIN course_type \cup {c} |->
                             IF k = c THEN t ELSE course_type[k]]
    /\ pc' = "call"
    /\ UNCHANGED <<cache, cat_courses, categorized>>
    /\ UNCHANGED <<allocVars, taskVars, topicVars, storeVars>>

\* Course.update: setattr(course, "type", value)
CourseUpdate ==
    /\ \E c \in DOMAIN course_type, t \in SubjectType :
          /\ course_type[c] # t
          /\ course_type' = [course_type EXCEPT ![c] = t]
    /\ pc' = "call"
    /\ UNCHANGED <<cache, cat_courses, categorized>>
    /\ UNCHANGED <<allocVars, taskVars, topicVars, storeVars>>

\* The one-hour expiry of the core_course_names key.
CoreNamesExpire ==
    /\ CoreNamesKey \in DOMAIN cache
    /\ cache' = [k \in DOMAIN cache \ {CoreNamesKey} |-> cache[k]]
    /\ pc' = "call"
    /\ UNCHANGED <<course_type, cat_courses, categorized>>
    /\ UNCHANGED <<allocVars, taskVars, topicVars, storeVars>>

Categorize ==
    /\ \E courses \in DistinctSeqs(DOMAIN course_type),
          get_fault \in BOOLEAN, set_fault \in BOOLEAN :
          LET r == categorize_subjects(courses, cache, course_type,
                                       get_fault, set_fault)
          IN /\ ~r.raised
             /\ cat_courses' = courses
             /\ categorized' = r.result
             /\ cache' = r.cache
    /\ pc' = "return"
    /\ UNCHANGED course_type
    /\ UNCHANGED <<allocVars, taskVars, topicVars, storeVars>>

NextCat == CourseAdd \/ CourseUpdate \/ CoreNamesExpire \/ Categorize

SpecCat == InitCat /\ [][NextCat]_vars

----------------------------------------------------------------------------
(* Properties of the subject classifier *)

IsSubsequence(sub, full) ==
    \A i, j \in 1..Len(sub) :
        i < j => \E a, b \in 1..Len(full) :
                     a < b /\ full[a] = sub[i] /\ full[b] = sub[j]

\* The part of C11 that holds: the two lists partition the input and keep
\* its relative order.
CategorizePartitions ==
    pc = "return" =>
        /\ Elems(categorized.core) \cup Elems(categorized.electives)
              = Elems(cat_courses)
        /\ Len(categorized.core) + Len(categorized.electives) = Len(cat_courses)
        /\ IsSubsequence(categorized.core, cat_courses)
        /\ IsSubsequence(categorized.electives, cat_courses)

\* C11: every input course lands in exactly one of the two lists, in core
\* exactly when it is a core course, each list keeps the input's relative
\* order, and an empty input gives two empty lists.
C11_PartitionByType ==
    pc = "return" =>
        /\ categorized.core =
              SelectSeq(cat_courses, LAMBDA c : course_type[c] = "core")
        /\ categorized.electives =
              SelectSeq(cat_courses, LAMBDA c : course_type[c] # "core")
        /\ cat_courses = <<>> =>
              (categorized.core = <<>> /\ categorized.electives = <<>>)

----------------------------------------------------------------------------
(* The plan endpoints of one deployment: requests of two users against    *)
(* one database and one Redis                                              *)

\* week_start_date values a request can name: the current week and the next
Weeks == {1, 2}

\* Which save() of a request raises: none, the first or the second one
FailedSaves == {0, 1, 2}

\* Plan ids a request can name: the ids given out so far and one more
PlanIds == 1..Min2(seq.plan + 1, MaxPlans)

\* StudyPlanGenerateIn bodies
GenerateRequests ==
    {[selected_subjects |-> {1}, strength_ratings |-> EmptyDict,
      daily_study_time |-> 30, completed_topics |-> {}],
     [selected_subjects |-> {1, 2, 3}, strength_ratings |-> (2 :> 1),
      daily_study_time |-> 60, completed_topics |-> {11}]}

Request(op, user, arg, status, body, source, faults, fail_at) ==
    [op |-> op, user |-> user, arg |-> arg, status |-> status, body |-> body,
     source |-> source, faults |-> faults, fail_at |-> fail_at]

planIdle == <<allocVars, taskVars, topicVars, course_type, cat_courses,
              categorized, strengths, inflight, chatVars>>

InitPlan ==
    /\ pc = "call"
    /\ course_type = CatalogTypes
    /\ cache = EmptyDict
    /\ cat_courses = <<>>
    /\ categorized = [core |-> <<>>, electives |-> <<>>]
    /\ IdleAlloc
    /\ IdleTasks
    /\ IdleTopic
    /\ IdleStore

\* POST /study-plans/generate
Generate ==
    /\ n_requests < MaxRequests
    /\ seq.plan < MaxPlans
    /\ \E u \in Users, data \in GenerateRequests,
          fail_at \in FailedSaves, faults \in RedisFaults :
          \E courses \in {cs \in DistinctSeqs(data.selected_subjects) :
                             Len(cs) = Cardinality(data.selected_subjects)} :
             \E cat \in {categorize_subjects(courses, cache, course_type,
                                             "get" \in faults,
                                             "set" \in faults)} :
             \E alloc \in {allocate_subjects_to_days(
                               cat.result.core, cat.result.electives,
                               strength_dict(data,
                                   stored_strengths(strengths, u)))} :
             \E rows \in {planned_sessions(alloc, data, 1)} :
             \* a fault is drawn only for a save the request gets to
             fail_at <= 1 + Len(rows) /\
             \E made \in {StudyPlanService_generate_study_plan(
                              u, cat, rows, week, seq, fail_at)} :
             \E r \in {StudyPlanController_generate_study_plan(
                           u, made, faults)} :
                /\ plans' = plans \cup r.plans
                /\ sessions' = sessions \cup r.sessions
                /\ seq' = r.seq
                /\ cache' = r.cache
                /\ last' = Request("generate", u, data, r.status, r.plan_id,
                                   "db", faults, fail_at)
    /\ n_requests' = n_requests + 1
    /\ pc' = "return"
    /\ UNCHANGED <<week, planIdle>>

\* GET /study-plans/current
GetCurrentWeekPlan ==
    /\ n_requests < MaxRequests
    /\ \E u \in Users, faults \in RedisFaults :
          \E first \in FirstOf(PlansOfWeek(plans, u, week)) :
             LET r == get_current_week_plan(u, cache, sessions, first, faults)
             IN /\ cache' = r.cache
                /\ last' = Request("get_current", u, <<>>, r.status, r.body,
                                   r.source, faults, 0)
    /\ n_requests' = n_requests + 1
    /\ pc' = "return"
    /\ UNCHANGED <<week, plans, sessions, seq, planIdle>>

\* GET /study-plans
ListPlans ==
    /\ n_requests < MaxRequests
    /\ \E u \in Users, faults \in RedisFaults :
          LET r == get_user_study_plans(u, cache, plans, sessions, faults)
          IN /\ cache' = r.cache
             /\ last' = Request("list", u, <<>>, r.status, r.body, r.source,
                                faults, 0)
    /\ n_requests' = n_requests + 1
    /\ pc' = "return"
    /\ UNCHANGED <<week, plans, sessions, seq, planIdle>>

\* GET /study-plans/{plan_id}
GetPlanById ==
    /\ n_requests < MaxRequests
    /\ \E u \in Users, plan_id \in PlanIds :
          LET r == get_study_plan_by_id(u, plan_id, cache, plans, sessions)
          IN /\ cache' = r.cache
             /\ last' = Request("get_by_id", u, plan_id, r.status, r.body,
                                r.source, {}, 0)
    /\ n_requests' = n_requests + 1
    /\ pc' = "return"
    /\ UNCHANGED <<week, plans, sessions, seq, planIdle>>

\* GET /study-plans/week/{week_date}
GetPlanByWeek ==
    /\ n_requests < MaxRequests
    /\ \E u \in Users, week_date \in {None} \cup {Some(w) : w \in Weeks} :
          \E first \in IF week_date = None THEN {None}
                       ELSE FirstOf(PlansOfWeek(plans, u, week_date[1])) :
             LET r == get_study_plan_by_week(u, week_date, cache, sessions,
                                             first)
             IN /\ cache' = r.cache
                /\ last' = Request("get_by_week", u, week_date, r.status,
                                   r.body, r.source, {}, 0)
    /\ n_requests' = n_requests + 1
    /\ pc' = "return"
    /\ UNCHANGED <<week, plans, sessions, seq, planIdle>>

\* StudyPlanSwapIn days
SwapDays == {"monday", "tuesday"}

SessionsOn(sess, plan, day) ==
    IF plan = None THEN {}
    ELSE {x \in sess : x.study_plan_id = plan[1].id /\ x.day_of_week = day}

\* POST /study-plans/swap
Swap ==
    /\ n_requests < MaxRequests
    /\ \E u \in Users, from_day \in SwapDays, to_day \in SwapDays,
          fail_at \in FailedSaves, faults \in RedisFaults :
          \E first \in FirstOf(PlansOfWeek(plans, u, week)) :
             \E from_session \in FirstOf(SessionsOn(sessions, first, from_day)),
                to_session \in FirstOf(SessionsOn(sessions, first, to_day)) :
                LET r == StudyPlanController_swap_days(
                             u, cache, sessions, first, from_session,
                             to_session, fail_at, faults)
                IN /\ from_day = to_day => to_session = from_session
                   \* a fault is drawn only for a save or a Redis command
                   \* the request gets to
                   /\ (first = None \/ from_session = None
                                    \/ to_session = None)
                         => (fail_at = 0 /\ faults = {})
                   /\ fail_at # 0 => faults = {}
                   /\ sessions' = r.sessions
                   /\ cache' = r.cache
                   /\ last' = Request("swap", u, <<from_day, to_day>>,
                                      r.status, first, "db", faults, fail_at)
    /\ n_requests' = n_requests + 1
    /\ pc' = "return"
    /\ UNCHANGED <<week, plans, seq, planIdle>>

\* DELETE /study-plans/{plan_id}
DeletePlan ==
    /\ n_requests < MaxRequests
    /\ \E u \in Users, plan_id \in PlanIds, faults \in RedisFaults :
          LET r == StudyPlanController_delete_study_plan(
                       u, plan_id, cache, plans, sessions, faults)
          IN /\ r.status = 404 => faults = {}
             /\ plans' = r.plans
             /\ sessions' = r.sessions
             /\ cache' = r.cache
             /\ last' = Request("delete", u, plan_id, r.status, <<>>, "db",
                                faults, 0)
    /\ n_requests' = n_requests + 1
    /\ pc' = "return"
    /\ UNCHANGED <<week, seq, planIdle>>

\* A key's expiry time passes (1800 s for the plan views, 3600 s for the
\* core course names).
Expire ==
    /\ \E key \in DOMAIN cache :
          cache' = [k \in DOMAIN cache \ {key} |-> cache[k]]
    /\ last' = NoRequest
    /\ pc' = "call"
    /\ UNCHANGED <<week, plans, sessions, seq, n_requests, planIdle>>

NextPlan ==
    \/ Generate
    \/ GetCurrentWeekPlan
    \/ ListPlans
    \/ GetPlanById
    \/ GetPlanByWeek
    \/ Swap
    \/ DeletePlan
    \/ Expire

SpecPlan == InitPlan /\ [][NextPlan]_vars

PlanTypeOK ==
    /\ \A p \in plans : p.id \in 1..seq.plan
    /\ \A x \in sessions : \E p \in plans : p.id = x.study_plan_id

----------------------------------------------------------------------------
(* The plan endpoints and the strength upsert while Redis and the database  *)
(* work: no command and no save fails                                        *)

StrengthValues == {MinStrength, MaxStrength}

\* PUT /study-plans/strengths/{course_id}/{strength}
UpdateStrength ==
    /\ n_requests < MaxRequests
    /\ \E u \in Users, course_id \in DOMAIN course_type,
          strength \in StrengthValues :
          /\ strengths' = update_strength(strengths, u, course_id, strength)
          /\ cache' = update_strength_cache(cache, u)
          /\ last' = Request("update_strength", u, <<course_id, strength>>,
                             200, <<>>, "db", {}, 0)
    /\ n_requests' = n_requests + 1
    /\ pc' = "return"
    /\ UNCHANGED <<week, plans, sessions, seq, allocVars, taskVars, topicVars,
                   course_type, cat_courses, categorized, inflight, chatVars>>

FaultFree(r) == r.faults = {} /\ r.fail_at = 0

GenerateOk == Generate /\ FaultFree(last')
GetCurrentWeekPlanOk == GetCurrentWeekPlan /\ FaultFree(last')
SwapOk == Swap /\ FaultFree(last')
DeletePlanOk == DeletePlan /\ FaultFree(last')

NextNoFault ==
    \/ GenerateOk
    \/ GetCurrentWeekPlanOk
    \/ SwapOk
    \/ DeletePlanOk
    \/ UpdateStrength
    \/ Expire

SpecNoFault == InitPlan /\ [][NextNoFault]_vars

----------------------------------------------------------------------------
(* The plan endpoints across a change of calendar week *)

\* date.today() passes a Sunday midnight: the Monday the handlers compute
\* becomes the next one. Nothing is written and no key is touched.
AdvanceWeek ==
    /\ week + 1 \in Weeks
    /\ week' = week + 1
    /\ last' = NoRequest
    /\ pc' = "call"
    /\ UNCHANGED <<cache, plans, sessions, seq, n_requests, planIdle>>

NextWeek ==
    \/ GenerateOk
    \/ GetCurrentWeekPlanOk
    \/ Expire
    \/ AdvanceWeek

SpecWeek == InitPlan /\ [][NextWeek]_vars

----------------------------------------------------------------------------
(* A getCurrentWeekPlan overlapping a swap or a delete of the same user.
   Every Redis command and every query or commit is one step. *)

RaceUser == "u1"

\* Everything the overlapping requests do not touch
raceIdle == <<week, seq, n_requests, last, allocVars, taskVars, topicVars,
              course_type, cat_courses, categorized, strengths, chatVars>>

\* DailyStudySession.save of a loaded row whose day_of_week was assigned
save_day(sess, row) ==
    {IF x.id = row.id THEN [x EXCEPT !.day_of_week = row.day_of_week] ELSE x
       : x \in sess}

\* The plans exist before the two requests start
RaceGenerate == GenerateOk /\ inflight = IdleRequests

\* get_current_week_plan: redis_instance.get_json(cache_key)
GetCacheGet ==
    /\ inflight.get.pc = "idle"
    /\ LET got == redis_get_json(cache, CurrentWeekKey(RaceUser), FALSE)
       IN inflight' = [inflight EXCEPT
             !.get = IF got.value # None
                     THEN [pc |-> "done",
                           result |-> Some(parse_cached(got.value[1]))]
                     ELSE [pc |-> "query", result |-> None]]
    /\ pc' = "call"
    /\ UNCHANGED <<cache, plans, sessions, raceIdle>>

\* get_current_week_plan: StudyPlanService.get_current_week_plan(...)
GetQuery ==
    /\ inflight.get.pc = "query"
    /\ \E first \in FirstOf(PlansOfWeek(plans, RaceUser, week)) :
          inflight' = [inflight EXCEPT
             !.get = IF first = None
                     THEN [pc |-> "done", result |-> None]
                     ELSE [pc |-> "set",
                           result |-> Some(StudyPlanOut(first[1], sessions))]]
    /\ pc' = "call"
    /\ UNCHANGED <<cache, plans, sessions, raceIdle>>

\* get_current_week_plan: redis_instance.set_json(cache_key, ..., expiry=1800)
GetCacheSet ==
    /\ inflight.get.pc = "set"
    /\ cache' = redis_set_json(cache, CurrentWeekKey(RaceUser),
                               serialize_data(inflight.get.result[1]),
                               FALSE).cache
    /\ inflight' = [inflight EXCEPT !.get.pc = "done"]
    /\ pc' = "return"
    /\ UNCHANGED <<plans, sessions, raceIdle>>

\* swap_days: StudyPlan.get_current_week_plan(user_id, week_start)
SwapQueryPlan ==
    /\ inflight.write.pc = "idle"
    /\ \E first \in FirstOf(PlansOfWeek(plans, RaceUser, week)) :
          inflight' = [inflight EXCEPT
             !.write = [@ EXCEPT !.op = "swap", !.plan = first,
                           !.pc = IF first = None THEN "done" ELSE "sessions"]]
    /\ pc' = "call"
    /\ UNCHANGED <<cache, plans, sessions, raceIdle>>

\* swap_days: get_sessions_for_plan, the two next(...) and the assignment of
\* the exchanged day_of_week values to the loaded rows
SwapQuerySessions ==
    /\ inflight.write.pc = "sessions"
    /\ \E from_day \in SwapDays, to_day \in SwapDays :
       \E f \in FirstOf(SessionsOn(sessions, inflight.write.plan, from_day)),
          t \in FirstOf(SessionsOn(sessions, inflight.write.plan, to_day)) :
          /\ from_day # to_day
          /\ inflight' = [inflight EXCEPT
                !.write = IF f = None \/ t = None
                          THEN [@ EXCEPT !.pc = "done"]
                          ELSE [@ EXCEPT
                                  !.pc = "save_from",
                                  !.from_session =
                                     Some([f[1] EXCEPT !.day_of_week = to_day]),
                                  !.to_session =
                                     Some([t[1] EXCEPT !.day_of_week = from_day])]]
    /\ pc' = "call"
    /\ UNCHANGED <<cache, plans, sessions, raceIdle>>

\* swap_days: from_session.save()
SwapSaveFrom ==
    /\ inflight.write.pc = "save_from"
    /\ sessions' = save_day(sessions, inflight.write.from_session[1])
    /\ inflight' = [inflight EXCEPT !.write.pc = "save_to"]
    /\ pc' = "call"
    /\ UNCHANGED <<cache, plans, raceIdle>>

\* swap_days: to_session.save()
SwapSaveTo ==
    /\ inflight.write.pc = "save_to"
    /\ sessions' = save_day(sessions, inflight.write.to_session[1])
    /\ inflight' = [inflight EXCEPT !.write.pc = "delete_current"]
    /\ pc' = "call"
    /\ UNCHANGED <<cache, plans, raceIdle>>

\* delete_study_plan: StudyPlan.get_study_plan_by_id(plan_id) and the 404
DeleteQueryPlan ==
    /\ inflight.write.pc = "idle"
    /\ \E plan_id \in PlanIds :
          inflight' = [inflight EXCEPT
             !.write = [@ EXCEPT
                          !.op = "delete",
                          !.plan = IF not_found(plans, RaceUser, plan_id)
                                   THEN None
                                   ELSE Some(CHOOSE p \in plans :
                                                p.id = plan_id),
                          !.pc = IF not_found(plans, RaceUser, plan_id)
                                 THEN "done" ELSE "delete_row"]]
    /\ pc' = "call"
    /\ UNCHANGED <<cache, plans, sessions, raceIdle>>

\* delete_study_plan: plan.delete(), cascading to the plan's sessions
DeleteRow ==
    /\ inflight.write.pc = "delete_row"
    /\ plans' = {p \in plans : p.id # inflight.write.plan[1].id}
    /\ sessions' = {x \in sessions :
                      x.study_plan_id # inflight.write.plan[1].id}
    /\ inflight' = [inflight EXCEPT !.write.pc = "delete_current"]
    /\ pc' = "call"
    /\ UNCHANGED <<cache, raceIdle>>

\* swap_days / delete_study_plan:
\* redis_instance.delete(f"user_current_week_plan:{user_id}")
DeleteCurrentWeekKey ==
    /\ inflight.write.pc = "delete_current"
    /\ cache' = redis_delete(cache, CurrentWeekKey(RaceUser), FALSE).cache
    /\ inflight' = [inflight EXCEPT !.write.pc = "delete_plans"]
    /\ pc' = "call"
    /\ UNCHANGED <<plans, sessions, raceIdle>>

\* swap_days / delete_study_plan:
\* redis_instance.delete(f"user_study_plans:{user_id}")
DeleteStudyPlansKey ==
    /\ inflight.write.pc = "delete_plans"
    /\ cache' = redis_delete(cache, StudyPlansKey(RaceUser), FALSE).cache
    /\ inflight' = [inflight EXCEPT !.write.pc = "done"]
    /\ pc' = "return"
    /\ UNCHANGED <<plans, sessions, raceIdle>>

NextRace ==
    \/ RaceGenerate
    \/ GetCacheGet
    \/ GetQuery
    \/ GetCacheSet
    \/ SwapQueryPlan
    \/ SwapQuerySessions
    \/ SwapSaveFrom
    \/ SwapSaveTo
    \/ DeleteQueryPlan
    \/ DeleteRow
    \/ DeleteCurrentWeekKey
    \/ DeleteStudyPlansKey

SpecRace == InitPlan /\ [][NextRace]_vars

----------------------------------------------------------------------------
(* ConnectionManager and the chat websocket endpoint *)

\* websockets opened in one run, numbered in the order they arrive
MaxSockets == 3
Rooms == {1, 2}
\* team.students and team.creator_id of each team
Members == [r \in Rooms |-> IF r = 1 THEN Users ELSE {"u1"}]
\* what verify_access_token_ws finds in the token: a user id, or none
Tokens == Users \cup {"invalid"}

\* an element of active_connections[room_id]: the tuple (websocket, user_id)
Conn(websocket, user_id) == [ws |-> websocket, uid |-> user_id]

RoomOf(ac, room_id) == IF room_id \in DOMAIN ac THEN ac[room_id] ELSE {}

\* `del self.active_connections[room_id]` when the room is empty
WithRoom(ac, room_id, conns, drop_empty) ==
    IF conns = {} /\ drop_empty
    THEN [r \in DOMAIN ac \ {room_id} |-> ac[r]]
    ELSE [r \in DOMAIN ac \cup {room_id} |->
             IF r = room_id THEN conns ELSE ac[r]]

connect_keep_existing(ac, websocket, room_id, user_id) ==
    WithRoom(ac, room_id,
             RoomOf(ac, room_id) \cup {Conn(websocket, user_id)}, FALSE)

\* ConnectionManager.connect, lines 25-35: drop the user's connections of
\* the room, add the new one
connect(ac, websocket, room_id, user_id) ==
    WithRoom(ac, room_id,
             {c \in RoomOf(ac, room_id) : c.uid # user_id}
                \cup {Conn(websocket, user_id)}, FALSE)

\* ConnectionManager.disconnect
disconnect(ac, room_id, user_id) ==
    IF room_id \notin DOMAIN ac THEN ac
    ELSE WithRoom(ac, room_id, {c \in ac[room_id] : c.uid # user_id}, TRUE)

\* ConnectionManager.broadcast_to_room: send_text succeeds on the websockets
\* in `open`; the others are closed and discarded (_cleanup_connection).
\* exclude_user is "" when the caller passes none.
broadcast_to_room(ac, room_id, exclude_user, open) ==
    LET targets == {c \in RoomOf(ac, room_id) :
                       ~(exclude_user # "" /\ c.uid = exclude_user)}
        disconnected == {c \in targets : c.ws \notin open}
    IN [delivered |-> {c.ws : c \in targets \ disconnected},
        active_connections |->
            IF room_id \notin DOMAIN ac \/ disconnected = {} THEN ac
            ELSE WithRoom(ac, room_id, ac[room_id] \ disconnected, TRUE)]

\* the websockets whose client end is open
OpenSockets(h) == {w \in DOMAIN h : h[w].pc = "loop"}

Handler(p, room_id, user_id) ==
    [pc |-> p, room_id |-> room_id, user_id |-> user_id, received |-> FALSE]

WithHandler(h, w, rec) ==
    [x \in DOMAIN h \cup {w} |-> IF x = w THEN rec ELSE h[x]]

Deliver(h, delivered) ==
    [x \in DOMAIN h |-> IF x \in delivered
                        THEN [h[x] EXCEPT !.received = TRUE] ELSE h[x]]

chatIdle == <<allocVars, taskVars, topicVars, catVars, week, plans, sessions,
              seq, n_requests, strengths, inflight, last>>

\* chat_websocket, lines 31-67: the token or the membership check fails and
\* the websocket is closed with code 1008
Reject ==
    /\ Cardinality(DOMAIN handlers) < MaxSockets
    /\ \E room_id \in Rooms, token \in Tokens :
          /\ token \notin Members[room_id]
          /\ handlers' = WithHandler(handlers, Cardinality(DOMAIN handlers) + 1,
                                     Handler("rejected", room_id, token))
    /\ pc' = "return"
    /\ UNCHANGED <<active_connections, accept_order, chatIdle>>

\* chat_websocket, line 70: manager.connect accepts the websocket, registers
\* it and tells the others of the room that the user joined
Connect ==
    /\ Cardinality(DOMAIN handlers) < MaxSockets
    /\ \E room_id \in Rooms, user_id \in Users :
       \E w \in {Cardinality(DOMAIN handlers) + 1} :
       \E ac \in {connect(active_connections, w, room_id, user_id)} :
       \E sent \in {broadcast_to_room(ac, room_id, user_id,
                                      OpenSockets(handlers) \cup {w})} :
          /\ user_id \in Members[room_id]
          /\ active_connections' = sent.active_connections
          /\ handlers' = Deliver(WithHandler(handlers, w,
                                    Handler("loop", room_id, user_id)),
                                 sent.delivered)
          /\ accept_order' = Append(accept_order, w)
    /\ pc' = "call"
    /\ UNCHANGED chatIdle

\* chat_websocket, lines 73-127: a chat_message is broadcast to the room, a
\* typing message to the room without its sender
Receive ==
    /\ \E w \in OpenSockets(handlers), type \in {"chat_message", "typing"} :
       \E sent \in {broadcast_to_room(
                        active_connections, handlers[w].room_id,
                        IF type = "typing" THEN handlers[w].user_id ELSE "",
                        OpenSockets(handlers))} :
          /\ active_connections' = sent.active_connections
          /\ handlers' = Deliver(handlers, sent.delivered)
    /\ pc' = "call"
    /\ UNCHANGED <<accept_order, chatIdle>>

\* the client end of a websocket closes; receive_text of its handler will
\* raise WebSocketDisconnect
ClientClose ==
    /\ \E w \in OpenSockets(handlers) :
          handlers' = [handlers EXCEPT ![w].pc = "closing"]
    /\ pc' = "call"
    /\ UNCHANGED <<active_connections, accept_order, chatIdle>>

\* chat_websocket, lines 129-135: the handler leaves the loop and its
\* finally runs manager.disconnect(team_id, user_id)
Disconnect ==
    /\ \E w \in DOMAIN handlers :
          /\ handlers[w].pc = "closing"
          /\ active_connections' = disconnect(active_connections,
                                              handlers[w].room_id,
                                              handlers[w].user_id)
          /\ handlers' = [handlers EXCEPT ![w].pc = "closed"]
    /\ pc' = "return"
    /\ UNCHANGED <<accept_order, chatIdle>>

NextChat ==
    \/ Reject
    \/ Connect
    \/ Receive
    \/ ClientClose
    \/ Disconnect

SpecChat == InitPlan /\ [][NextChat]_vars

----------------------------------------------------------------------------
(* Claims about the plan endpoints *)

PlanById(plan_id) == CHOOSE p \in plans : p.id = plan_id
Succeeded(r) == r.status = 200

\* C13: the store never holds two WeeklyPlan rows for the same
\* (user id, week-start date) pair, whatever generate calls were made.
C13_OnePlanPerUserWeek ==
    \A p \in plans, q \in plans :
        (p.user_id = q.user_id /\ p.week_start_date = q.week_start_date)
            => p = q

\* C12: a getCurrentWeekPlan that follows a successful generate of the same
\* user in the same week returns the plan this generate produced: its day
\* assignments, topics and task lists.
C12_RoundTrip ==
    [][(/\ last.op = "generate" /\ Succeeded(last)
        /\ last'.op = "get_current" /\ last'.user = last.user
        /\ last'.faults = {})
       => (/\ Succeeded(last')
           /\ last'.body = Some(StudyPlanOut(PlanById(last.body), sessions)))
      ]_vars

\* The round trip on a store where the generate made the user's only plan of
\* the week and left no cached view behind.
C12_FirstPlanRoundTrip ==
    [][(/\ last.op = "generate" /\ Succeeded(last)
        /\ last'.op = "get_current" /\ last'.user = last.user
        /\ Cardinality(PlansOfWeek(plans, last.user, week)) = 1
        /\ CurrentWeekKey(last.user) \notin DOMAIN cache)
       => (/\ Succeeded(last')
           /\ last'.body = Some(StudyPlanOut(PlanById(last.body), sessions)))
      ]_vars

\* C14: a generate whose plan save or session save fails reports an error and
\* leaves no plan row and no session row of that call in the store.
C14_GenerateAllOrNothing ==
    [][(last'.op = "generate" /\ ~Succeeded(last'))
       => (last'.status = 400 /\ plans' = plans /\ sessions' = sessions)
      ]_vars

\* The plan and the sessions a swap request looked up.
SwapFrom(r) == SessionsOn(sessions, r.body, r.arg[1])
SwapTo(r) == SessionsOn(sessions, r.body, r.arg[2])

\* C15: a swap for which the current-week plan is absent, or has no session
\* on from_day or on to_day, signals failure, modifies no session and
\* deletes no cache entry.
C15_FailedSwapChangesNothing ==
    [][(/\ last'.op = "swap"
        /\ (last'.body = None \/ SwapFrom(last') = {} \/ SwapTo(last') = {}))
       => (/\ last'.status = 400
           /\ plans' = plans /\ sessions' = sessions /\ cache' = cache)
      ]_vars

\* A swap was refused for a plan that exists and whose view is cached.
C15_Witness ==
    /\ last.op = "swap" /\ last.status = 400
    /\ last.body # None
    /\ SwapFrom(last) # {} /\ SwapTo(last) = {}
    /\ CurrentWeekKey(last.user) \in DOMAIN cache

Relabel(x, day) == [x EXCEPT !.day_of_week = day]

\* C16: a successful swap exchanges the weekday labels of the session on
\* from_day and the session on to_day of the plan it read, and changes
\* nothing else: no course, topic or task list, no other session, no plan.
C16_SwapExchangesTwoLabels ==
    [][(last'.op = "swap" /\ Succeeded(last'))
       => (/\ plans' = plans
           /\ \E a \in SwapFrom(last'), b \in SwapTo(last') :
                 sessions' =
                    {IF x.id = a.id THEN Relabel(x, last'.arg[2])
                     ELSE IF x.id = b.id THEN Relabel(x, last'.arg[1])
                     ELSE x : x \in sessions})
      ]_vars

\* A swap of two different days succeeded in a store that holds more sessions
\* than the two it exchanged.
C16_Witness ==
    /\ last.op = "swap" /\ Succeeded(last)
    /\ last.arg[1] # last.arg[2]
    /\ \E x \in sessions : x.study_plan_id = last.body[1].id
                           /\ x.day_of_week \notin {last.arg[1], last.arg[2]}
    /\ \E x \in sessions : x.study_plan_id = last.body[1].id
                           /\ x.day_of_week = last.arg[1]

Writes == {"generate", "swap", "delete"}

Reads == {"get_current", "get_by_id", "get_by_week", "list"}
FoundData(r) ==
    /\ Succeeded(r)
    /\ r.op = "list" => r.body # {}
SameRead(r, q) == r.op = q.op /\ r.user = q.user /\ r.arg = q.arg

\* C18: a read accessor that found data has stored it in the cache, so the
\* identical read issued next is answered from the cache: for each of
\* getCurrentWeekPlan, getPlanById, getPlanByWeek and listPlans.
C18_AsStated ==
    [][(/\ last.op \in Reads /\ FoundData(last) /\ last.faults = {}
        /\ SameRead(last, last') /\ last'.faults = {})
       => last'.source = "cache"
      ]_vars

\* C18 (amended): that holds for getCurrentWeekPlan and listPlans, which
\* then return the same data again; getPlanById and getPlanByWeek never
\* answer from the cache and never change it.
C18_Amended ==
    [][/\ (/\ last.op \in {"get_current", "list"} /\ FoundData(last)
           /\ last.faults = {}
           /\ SameRead(last, last') /\ last'.faults = {})
          => (last'.source = "cache" /\ last'.body = last.body)
       /\ last'.op \in {"get_by_id", "get_by_week"}
          => (last'.source # "cache" /\ cache' = cache)
      ]_vars

\* A current-week plan was answered from the cache.
C18_Witness ==
    /\ last.op = "get_current" /\ Succeeded(last)
    /\ last.source = "cache"
    /\ last.body = Some(StudyPlanOut(PlanById(last.body[1].id), sessions))

Owns(user_id, plan_id) ==
    \E p \in plans : p.id = plan_id /\ p.user_id = user_id

\* C19: getPlanById and deletePlan with a plan id that does not exist or
\* belongs to another user answer NotFound without plan data and leave the
\* store and the cache unchanged; deletePlan removes only a plan of the
\* caller.
C19_NotFoundUnlessOwner ==
    [][/\ (last'.op \in {"get_by_id", "delete"}
           /\ ~Owns(last'.user, last'.arg))
          => (/\ last'.status = 404 /\ last'.body = None
              /\ plans' = plans /\ sessions' = sessions /\ cache' = cache)
       /\ last'.op = "delete"
          => \A p \in plans \ plans' :
                p.id = last'.arg /\ p.user_id = last'.user
      ]_vars

\* A delete of another user's existing plan was answered NotFound.
C19_Witness ==
    /\ last.op = "delete" /\ last.status = 404
    /\ \E p \in plans : p.id = last.arg /\ p.user_id # last.user

\* C20: a cache error during getCurrentWeekPlan, listPlans, generate, swap
\* or deletePlan never fails the operation: the reads answer from
\* persistence and skip the cache write, the writes complete as they do
\* with a working cache.
C20_CacheErrorsNonFatal ==
    [][(last'.op \in {"get_current", "list"} \cup Writes
        /\ last'.faults # {})
       => /\ (last'.op = "get_current") =>
               (/\ last'.source = "db" /\ cache' = cache
                /\ IF PlansOfWeek(plans, last'.user, week) = {}
                   THEN last'.status = 404
                   ELSE /\ Succeeded(last')
                        /\ \E p \in PlansOfWeek(plans, last'.user, week) :
                              last'.body = Some(StudyPlanOut(p, sessions)))
          /\ (last'.op = "list") =>
               (/\ Succeeded(last') /\ last'.source = "db" /\ cache' = cache
                /\ last'.body =
                      {StudyPlanOut(p, sessions) :
                          p \in {q \in plans : q.user_id = last'.user}})
          /\ (last'.op = "generate" /\ last'.fail_at = 0) =>
               (/\ Succeeded(last')
                /\ \E p \in plans' \ plans :
                      p.id = last'.body /\ p.user_id = last'.user)
          /\ (last'.op = "swap" /\ last'.fail_at = 0) =>
               (Succeeded(last') <=>
                   (/\ last'.body # None
                    /\ SwapFrom(last') # {} /\ SwapTo(last') # {}))
          /\ (last'.op = "delete") =>
               (/\ Succeeded(last') <=> Owns(last'.user, last'.arg)
                /\ Succeeded(last') => \A p \in plans' : p.id # last'.arg)
      ]_vars

\* getCurrentWeekPlan was answered from persistence although the user's
\* view sits in the cache: the cache read failed.
C20_Witness ==
    /\ last.op = "get_current" /\ Succeeded(last)
    /\ last.faults # {} /\ last.source = "db"
    /\ CurrentWeekKey(last.user) \in DOMAIN cache

----------------------------------------------------------------------------
(* Claims about the rows generate and swap write *)

OrdersOf(S) == {cs \in DistinctSeqs(S) : Len(cs) = Cardinality(S)}
SessionsOfDay(sess, plan_id, day) ==
    {x \in sess : x.study_plan_id = plan_id /\ x.day_of_week = day}

\* The sessions `created` are those of allocation `alloc` for request `data`:
\* one per weekday whose course has a topic, none for the other weekdays.
SessionsMatch(created, plan_id, alloc, data) ==
    /\ \A x \in created : x.study_plan_id = plan_id
    /\ \A d \in DayOfWeek :
          IF d \in DOMAIN alloc /\ CatalogTopics(alloc[d]) # {}
          THEN \E x \in created :
                  /\ SessionsOfDay(created, plan_id, d) = {x}
                  /\ x.course_id = alloc[d]
                  /\ Some([id |-> x.topic_id,
                           order |-> (CHOOSE t \in CatalogTopics(alloc[d]) :
                                         t.id = x.topic_id).order])
                        = select_topic_for_course(
                              topics_relationship(CatalogTopics(alloc[d])),
                              data.completed_topics)
                  /\ x.tasks = generate_tasks(data.daily_study_time)
          ELSE SessionsOfDay(created, plan_id, d) = {}

\* C22: a successful generate creates one plan and, for each weekday of the
\* allocation, exactly one session (weekday, allocated course, selected
\* topic, generated tasks) when the course has a topic and none when it has
\* no topic; every created session belongs to the created plan.
C22_OneSessionPerDayWithTopic ==
    [][(last'.op = "generate" /\ Succeeded(last'))
       => /\ \E p \in plans' : plans' \ plans = {p} /\ p.id = last'.body
          /\ \E cs \in OrdersOf(last'.arg.selected_subjects) :
             \E sp \in {split_by_names(cs, get_core_course_names(course_type))} :
             \E alloc \in {allocate_subjects_to_days(
                               sp.core, sp.electives,
                               last'.arg.strength_ratings)} :
                SessionsMatch(sessions' \ sessions, last'.body, alloc,
                              last'.arg)
      ]_vars

\* A generate succeeded for a course with topics and a course without: its
\* plan has sessions, but not for all five weekdays.
C22_Witness ==
    /\ last.op = "generate" /\ Succeeded(last)
    /\ last.arg.selected_subjects = {1, 2, 3}
    /\ LET mine == {x \in sessions : x.study_plan_id = last.body}
       IN mine # {} /\ Cardinality(mine) < Len(days)

\* C28: every plan has at most one session per weekday, in every reachable
\* state, also after a swap whose second save failed.
C28_OneSessionPerWeekday ==
    \A p \in plans, d \in DayOfWeek :
        Cardinality(SessionsOfDay(sessions, p.id, d)) <= 1

----------------------------------------------------------------------------
(* Claims about strength ratings and about reads while nothing fails *)

\* C21: updateStrength leaves every plan row, every session row and every
\* cached plan view as it was.
C21_StrengthLeavesPlansAlone ==
    [][last'.op = "update_strength"
       => (plans' = plans /\ sessions' = sessions /\ cache' = cache)
      ]_vars

\* A strength was updated for a user who has a plan with sessions and a
\* cached current-week view.
C21_Witness ==
    /\ last.op = "update_strength"
    /\ \E p \in plans : p.user_id = last.user
                        /\ \E x \in sessions : x.study_plan_id = p.id
    /\ CurrentWeekKey(last.user) \in DOMAIN cache

StrengthRows(rows, user_id, course_id) ==
    {r \in rows : r.user_id = user_id /\ r.course_id = course_id}

\* C23: there is never more than one strength row per (user, course); after
\* an updateStrength the row of its pair holds the value of that call and
\* the rows of the other pairs are as before.
C23_StrengthUpsert ==
    /\ [](\A r \in strengths :
             StrengthRows(strengths, r.user_id, r.course_id) = {r})
    /\ [][last'.op = "update_strength"
          => LET mine == StrengthRows(strengths', last'.user, last'.arg[1])
             IN /\ \E r \in mine : mine = {r} /\ r.strength = last'.arg[2]
                /\ strengths' \ mine
                      = strengths \ StrengthRows(strengths, last'.user,
                                                 last'.arg[1])
         ]_vars

\* An updateStrength overwrote the value of a row that existed before, in a
\* table that holds other rows too.
C23_Witness ==
    /\ last.op = "update_strength"
    /\ \E r \in strengths :
          /\ r.user_id = last.user /\ r.course_id = last.arg[1]
          /\ r.strength = last.arg[2]
          /\ r.id < Cardinality(strengths)

\* The day -> course assignment of a set of session rows.
DayCourses(sess) == {<<x.day_of_week, x.course_id>> : x \in sess}
\* The assignment a request yields when the course query returns the courses
\* in the order cs: computed from the request and the catalogue alone.
RequestDayCourses(data, cs) ==
    LET sp == split_by_names(cs, get_core_course_names(CatalogTypes))
        alloc == allocate_subjects_to_days(sp.core, sp.electives,
                                           data.strength_ratings)
    IN {<<d, alloc[d]>> : d \in {e \in DOMAIN alloc :
                                    CatalogTopics(alloc[e]) # {}}}

\* C29: the day-to-course assignment of a generate is the one its own
\* arguments determine, with strength 3 for a course the request does not
\* rate, whatever strength rows the user has stored.
C29_AllocationIgnoresStoredStrengths ==
    [][(last'.op = "generate" /\ Succeeded(last'))
       => \E cs \in OrdersOf(last'.arg.selected_subjects) :
          \E expected \in {RequestDayCourses(last'.arg, cs)} :
             DayCourses(sessions' \ sessions) = expected
      ]_vars

\* A generate that rates course 2 as 1 succeeded for a user whose stored
\* rating of course 2 is 5.
C29_Witness ==
    /\ last.op = "generate" /\ Succeeded(last)
    /\ 2 \in DOMAIN last.arg.strength_ratings
    /\ \E r \in strengths : /\ r.user_id = last.user /\ r.course_id = 2
                            /\ r.strength # last.arg.strength_ratings[2]

\* C25: while nothing fails and the week does not change, every
\* getCurrentWeekPlan returns what a read of the tables returns at that
\* moment: NotFound when the user has no plan of the week, else the current
\* rows of a plan of the week.
\* A cached current-week view is also kept equal to such a read, so that
\* the answer does not depend on whether the cache is hit.
C25_ReadMatchesStore ==
    /\ [](\A u \in Users :
             CurrentWeekKey(u) \in DOMAIN cache
             => \E p \in PlansOfWeek(plans, u, week) :
                   parse_cached(cache[CurrentWeekKey(u)])
                      = StudyPlanOut(p, sessions))
    /\ [][last'.op = "get_current"
          => IF PlansOfWeek(plans, last'.user, week) = {}
             THEN last'.status = 404
             ELSE /\ Succeeded(last')
                  /\ \E p \in PlansOfWeek(plans, last'.user, week) :
                        last'.body = Some(StudyPlanOut(p, sessions))
         ]_vars

\* A getCurrentWeekPlan answered after a swap moved session 1 from monday to
\* tuesday.
C25_Witness ==
    /\ last.op = "get_current" /\ Succeeded(last)
    /\ \E x \in last.body[1].daily_sessions :
          x.id = 1 /\ x.day_of_week = "tuesday"

----------------------------------------------------------------------------
(* Claims about the week of the current-week view *)

\* C27: a plan that getCurrentWeekPlan returns has the Monday of the week
\* of the call as its week-start date, from the cache or from the tables.
C27_ReturnedPlanIsOfThisWeek ==
    (last.op = "get_current" /\ Succeeded(last))
        => last.body[1].week_start_date = week

----------------------------------------------------------------------------
(* Claims about overlapping requests *)

\* C26: once an overlapping getCurrentWeekPlan and swap or deletePlan of one
\* user have both completed, the cache has no current-week entry for the
\* user or an entry equal to the view of a persisted plan of the week.
C26_CacheFreshAfterOverlap ==
    (inflight.get.pc = "done" /\ inflight.write.pc = "done")
        => \/ CurrentWeekKey(RaceUser) \notin DOMAIN cache
           \/ \E p \in PlansOfWeek(plans, RaceUser, week) :
                 parse_cached(cache[CurrentWeekKey(RaceUser)])
                    = StudyPlanOut(p, sessions)

----------------------------------------------------------------------------
(* Claims about the chat rooms *)

UserConns(ac, room_id, user_id) ==
    {c \in RoomOf(ac, room_id) : c.uid = user_id}

\* C24: a room never holds more than one registered connection of a user;
\* after a connect the user's only connection in the room is the new one,
\* and after a disconnect the user has none in the room.
C24_OneConnectionPerUser ==
    /\ [](\A room_id \in Rooms, user_id \in Users :
             Cardinality(UserConns(active_connections, room_id, user_id)) <= 1)
    /\ [][\A w \in DOMAIN handlers' :
            /\ (w \notin DOMAIN handlers /\ handlers'[w].pc = "loop")
                  => UserConns(active_connections', handlers'[w].room_id,
                               handlers'[w].user_id)
                        = {Conn(w, handlers'[w].user_id)}
            /\ (w \in DOMAIN handlers /\ handlers[w].pc = "closing"
                                      /\ handlers'[w].pc = "closed")
                  => UserConns(active_connections', handlers[w].room_id,
                               handlers[w].user_id) = {}
         ]_vars

\* A user connected to a room twice and only the second websocket is
\* registered there.
C24_Witness ==
    \E i, j \in 1..Len(accept_order) :
       /\ i < j
       /\ handlers[accept_order[i]].room_id = handlers[accept_order[j]].room_id
       /\ handlers[accept_order[i]].user_id = handlers[accept_order[j]].user_id
       /\ UserConns(active_connections, handlers[accept_order[j]].room_id,
                    handlers[accept_order[j]].user_id)
             = {Conn(accept_order[j], handlers[accept_order[j]].user_id)}

\* The websocket connect accepted last for the room and the user
Newest(room_id, user_id) ==
    LET idx == {i \in 1..Len(accept_order) :
                   /\ handlers[accept_order[i]].room_id = room_id
                   /\ handlers[accept_order[i]].user_id = user_id}
    IN IF idx = {} THEN None
       ELSE Some(accept_order[CHOOSE i \in idx : \A k \in idx : k <= i])

\* C30: while the websocket accepted last for a user and a room is open and
\* its handler is in the receive loop, it is registered in the room.
C30_NewestStaysRegistered ==
    \A room_id \in Rooms, user_id \in Users :
       LET n == Newest(room_id, user_id)
       IN (n # None /\ handlers[n[1]].pc = "loop")
             => Conn(n[1], user_id) \in RoomOf(active_connections, room_id)

====
